---- MODULE Spec2Model ----
(***************************************************************************)
(* Model of the object-store demo's asynchronous RPC bridge:               *)
(*   - orchestrator_service/orchestrator.py : RabbitMQConnection (the bus  *)
(*     connection manager) and the HTTP handlers list_objects / get_object *)
(*     (call-and-wait) and create_object / upload_* (fire-and-forget);     *)
(*   - object_getter_service/object_getter.py and                          *)
(*     object_receiver_service/object_receiver.py : the workers'           *)
(*     process_message dispatch loops and their handlers.                  *)
(*                                                                         *)
(* Three specifications share the module's variables:                      *)
(*   Spec       the request correlator, the broker and the read worker;    *)
(*   SpecConn   the connection manager's publish / reconnect loops, one    *)
(*              step per statement that can block or fail;                 *)
(*   SpecWorker one worker's process_message, one step per bus operation.  *)
(***************************************************************************)
EXTENDS Naturals, Sequences, FiniteSets, TLC

(***************************************************************************)
(* Bounds of the model.                                                    *)
(***************************************************************************)
TimeUnit == 5        \* seconds that one Tick of the model clock stands for
MaxForeign == 1      \* messages other bus clients put on reply queues

(***************************************************************************)
(* Program constants.                                                      *)
(***************************************************************************)
Timeout == 10        \* orchestrator.py:214 / :286  timeout = 10

\* Two concurrent call-and-wait invocations; a call's number is its request id.
Calls == {1, 2}
Foreign == Cardinality(Calls) + 1   \* a correlation id of no call of this process

VARIABLES
  \* ---- orchestrator: rabbitmq_handler, as the handlers see it
  connection,   \* self.connection: "none" | "open" | "closed" (pika's is_closed)
  linkAlive,    \* the socket of the current connection still reaches the bus
  \* ---- orchestrator: one record per call-and-wait invocation
  pc,           \* position of the handler coroutine
  kind,         \* event_type of the call
  payload,      \* payload of the call
  response,     \* the handler's nonlocal `response`
  outcome,      \* what the HTTP client receives
  elapsed,      \* time.time() - start_time, saturating at Timeout
  \* ---- broker
  queue,        \* reply queue response_<c>: "absent" | "live" | "orphan"
  replies,      \* ready messages of reply queue response_<c>
  unacked,      \* messages of response_<c> delivered and not acknowledged
  readQ,        \* READ_QUEUE
  foreignSent,  \* messages other clients have put on reply queues
  \* ---- history
  inTime,       \* the worker's reply reached response_<c> before the deadline
  dropped,      \* history: where the caller stood when the bus dropped its reply
  \* ---- orchestrator: RabbitMQConnection and one publish_message call
  channel,          \* self.channel: "none" | "current" | "stale"
  reconnect_delay,  \* self.reconnect_delay
  ppc,              \* position of publish_message
  returned,         \* what publish_message returned: "none" | "True" | "False"
  busUp,            \* the bus accepts connections
  sent,             \* messages basic_publish has handed to the bus
  waits,            \* the delays slept since the last successful connect
  faults,           \* bus outages and connection drops so far
  retried,          \* history: this publish_message call has slept and retried
  \* ---- a worker process (object_getter.py / object_receiver.py) and its queue
  worker,       \* which service runs: "getter" | "receiver"
  msg,          \* the messages published to the worker's queue, by id
  inbox,        \* the worker's queue: ids of the messages ready for delivery
  wpc,          \* position of process_message
  cur,          \* id of the delivery process_message is handling, 0 if none
  wres,         \* `result` of process_message
  outbox,       \* replies the worker has published
  acks,         \* basic_ack calls per message
  nacks,        \* basic_nack calls per message, saturating at MaxCount
  invoked,      \* history: a handle_* function was called for the message
  held,         \* deliveries sent to the consumer, not yet handed to process_message
  wlink,        \* the worker's connection: "up" | "down"
  runs,         \* handle_* calls per message, saturating at MaxCount
  wdrops,       \* losses of the worker's connection so far
  issued,       \* basic_ack / basic_nack calls made on the current delivery
  \* ---- orchestrator: one record per fire-and-forget invocation
  npc,          \* position of the handler: "idle" | "publishing" | "done"
  nreq,         \* the HTTP request: operation and body
  noutcome,     \* what the HTTP client receives
  writeQ,       \* WRITE_QUEUE
  \* ---- a binary payload on its way through an envelope
  path,         \* "upload" | "fetch"
  raw,          \* the bytes at the sender
  stage,        \* "raw" | "hex" | "decoded" | "rejected"
  wire,         \* the hex string in the envelope
  back          \* the bytes at the receiver

callVars == <<pc, kind, payload, response, outcome, elapsed>>
busVars == <<queue, replies, unacked, readQ, foreignSent>>
connVars == <<connection, linkAlive>>
mainVars == <<connVars, callVars, busVars, inTime, dropped>>
mgrVars == <<channel, reconnect_delay, ppc, returned, busUp, sent, waits, faults,
            retried>>
wrkVars == <<worker, msg, inbox, wpc, cur, wres, outbox, acks, nacks, invoked,
            held, wlink, runs, wdrops, issued>>
nwVars == <<npc, nreq, noutcome, writeQ>>
cdcVars == <<path, raw, stage, wire, back>>

vars == <<mainVars, mgrVars, wrkVars, nwVars, cdcVars>>

(***************************************************************************)
(* Envelopes.                                                              *)
(***************************************************************************)
None == [tag |-> "None"]

Ids == {1, 2}        \* ids of the messages a worker is sent
Writes == {1, 2}     \* the fire-and-forget invocations

ListPayloads == {[type |-> "image", page |-> 1, page_size |-> 10]}
GetPayloads == {[object_id |-> "o1"], [object_id |-> "zz"]}
PayloadsOf(ev) == IF ev = "list_objects" THEN ListPayloads ELSE GetPayloads

(***************************************************************************)
(* Envelope codec: bytes.hex() and bytes.fromhex().  A byte is a number in *)
(* 0..255, a hex string a sequence of digit characters.                    *)
(***************************************************************************)
HexDigits == <<"0", "1", "2", "3", "4", "5", "6", "7",
               "8", "9", "a", "b", "c", "d", "e", "f">>

RECURSIVE Hex(_)
Hex(bytes) ==
  IF bytes = <<>> THEN <<>>
  ELSE <<HexDigits[(Head(bytes) \div 16) + 1], HexDigits[(Head(bytes) % 16) + 1]>>
       \o Hex(Tail(bytes))

\* (mutant) a digit read as its position in the digit table
DigitValueOneBased(d) == CHOOSE i \in 1..16 : HexDigits[i] = d

DigitValue(d) == (CHOOSE i \in 1..16 : HexDigits[i] = d) - 1

RECURSIVE FromHex(_)
FromHex(h) ==
  IF h = <<>> THEN <<>>
  ELSE <<DigitValue(h[1]) * 16 + DigitValue(h[2])>> \o FromHex(Tail(Tail(h)))

(***************************************************************************)
(* The blob store, an external collaborator: the objects of the bucket.    *)
(* An object's name is <id>-<filename> (uploads) or <id>.json.             *)
(***************************************************************************)
Store == {[id |-> "o1", filename |-> "a.png", ext |-> "png",
           ctype |-> "image/png", content |-> <<137, 80>>],
          [id |-> "o2", filename |-> "", ext |-> "json",
           ctype |-> "application/json", content |-> <<123, 125>>]}

Raised == [tag |-> "raised"]
NoPayload == [tag |-> "absent"]      \* message.get('payload') returned None

Has(p, f) == f \in DOMAIN p
IsAbsent(p) == Has(p, "tag")

(***************************************************************************)
(* object_getter.py handle_list_objects.  payload.get(...) on lines        *)
(* 211-213 runs before the try: an absent payload raises out of the        *)
(* handler; every fault after line 217 is returned as {"error": ...}.      *)
(***************************************************************************)
ListMatches(type) ==
  {o \in Store : \/ type = "pdf" /\ o.ext = "pdf"
                 \/ type = "image" /\ o.ext \in {"jpg", "jpeg", "png", "gif"}
                 \/ type = "json" /\ o.ext = "json"}

handle_list_objects(p) ==
  IF IsAbsent(p) THEN Raised
  ELSE LET type == IF Has(p, "type") THEN p.type ELSE "null"
           page == IF Has(p, "page") THEN p.page ELSE 1
           page_size == IF Has(p, "page_size") THEN p.page_size ELSE 10
           count == Cardinality(ListMatches(type))
       IN  IF page_size = 0
           THEN [tag |-> "error", error |-> "integer division or modulo by zero"]
           ELSE [tag |-> "list", total |-> count,
                 total_pages |-> (count + page_size - 1) \div page_size,
                 current_page |-> page, page_size |-> page_size,
                 objects |-> LET skip == (page - 1) * page_size
                                 left == IF count > skip THEN count - skip ELSE 0
                             IN  IF left < page_size THEN left ELSE page_size]

(***************************************************************************)
(* object_getter.py handle_get_object.  Line 279 runs before the try.      *)
(***************************************************************************)
handle_get_object(p) ==
  IF IsAbsent(p) THEN Raised
  ELSE IF ~Has(p, "object_id")
  THEN [tag |-> "error", error |-> "startswith first arg must be str"]
  ELSE LET found == {o \in Store : o.id = p.object_id}
       IN  IF found = {} THEN [tag |-> "error", error |-> "Object not found"]
           ELSE LET o == CHOOSE x \in found : TRUE
                IN  IF o.ctype = "application/json"
                    THEN [tag |-> "json", data |-> o.content]
                    ELSE IF o.ctype = "image/png"
                    THEN [tag |-> "image", data |-> Hex(o.content),
                          mime_type |-> o.ctype, filename |-> o.filename]
                    ELSE IF o.ctype = "application/pdf"
                    THEN [tag |-> "pdf", data |-> Hex(o.content),
                          mime_type |-> o.ctype, filename |-> o.filename]
                    ELSE [tag |-> "error", error |-> "Unsupported content type"]

(***************************************************************************)
(* object_getter.py process_message lines 181-189: the closed set of       *)
(* operations of the read worker.                                          *)
(***************************************************************************)
GetterResult(event_type, p) ==
  IF event_type = "list_objects" THEN handle_list_objects(p)
  ELSE IF event_type = "get_object" THEN handle_get_object(p)
  ELSE [tag |-> "error", error |-> "Unknown event type"]

(***************************************************************************)
(* Spec: the request correlator (orchestrator.py list_objects, get_object),*)
(* the broker's queues and the read worker.                                *)
(*                                                                         *)
(* pc of a call-and-wait handler:                                          *)
(*   "idle"        not started                                             *)
(*   "declared"    channel opened and reply queue declared (lines 183-185  *)
(*                 / 255-257), no consumer on it yet                       *)
(*   "consuming"   consumer registered on the reply queue (lines 196-200   *)
(*                 / 268-272), publish_message not called                  *)
(*   "publishing"  inside publish_message, which found the connection      *)
(*                 unusable and sleeps / reconnects (lines 75-88); the     *)
(*                 event loop is blocked by time.sleep                     *)
(*   "wait"        in the wait loop (lines 216-218 / 288-290)              *)
(*   "done"        returned or raised                                      *)
(***************************************************************************)
NoOutcome == [status |-> 0, kind |-> "none", body |-> None]

Exception500 == [status |-> 500, kind |-> "exception", body |-> None]

\* (mutant) a publish_message that hands the event loop back while it waits
LoopNeverBlocked == FALSE

\* (mutant) a wait loop that sleeps without handing the event loop back
LoopBlockedByWait ==
  \/ \E c \in Calls : pc[c] = "publishing"
  \/ \E n \in Writes : npc[n] = "publishing"
  \/ \E c \in Calls : pc[c] = "wait" /\ response[c] = None

\* time.sleep in publish_message blocks the single event-loop thread.
LoopBlocked ==
  \/ \E c \in Calls : pc[c] = "publishing"
  \/ \E n \in Writes : npc[n] = "publishing"

Usable == connection = "open" /\ linkAlive

\* A failed operation on the connection leaves pika's is_closed set.
Detected == IF connection = "open" /\ ~linkAlive THEN "closed" ELSE connection

Request(c, ev, p) ==
  [event_type |-> ev, payload |-> p, request_id |-> c,
   reply_to |-> c, correlation_id |-> c, delivery_mode |-> 2]

InitCalls ==
  /\ connection \in {"open", "none"}       \* startup_event: connect() or not
  /\ linkAlive = (connection = "open")
  /\ pc = [c \in Calls |-> "idle"]
  /\ kind = [c \in Calls |-> "none"]
  /\ payload = [c \in Calls |-> NoPayload]
  /\ response = [c \in Calls |-> None]
  /\ outcome = [c \in Calls |-> NoOutcome]
  /\ elapsed = [c \in Calls |-> 0]
  /\ queue = [c \in Calls |-> "absent"]
  /\ replies = [c \in Calls |-> <<>>]
  /\ unacked = [c \in Calls |-> 0]
  /\ readQ = <<>>
  /\ foreignSent = 0
  /\ inTime = [c \in Calls |-> FALSE]
  /\ dropped = [c \in Calls |-> "no"]

InitMgr ==
  /\ channel = IF connection = "open" THEN "current" ELSE "none"
  /\ reconnect_delay = 1
  /\ ppc = "idle"
  /\ returned = "none"
  /\ busUp = (connection = "open")
  /\ sent = 0
  /\ waits = <<>>
  /\ faults = 0
  /\ retried = FALSE

InitWrk ==
  /\ msg = [i \in Ids |-> None]
  /\ inbox = <<>>
  /\ wpc = "idle"
  /\ cur = 0
  /\ wres = None
  /\ outbox = <<>>
  /\ acks = [i \in Ids |-> 0]
  /\ nacks = [i \in Ids |-> 0]
  /\ invoked = [i \in Ids |-> FALSE]
  /\ held = <<>>
  /\ wlink = "up"
  /\ runs = [i \in Ids |-> 0]
  /\ wdrops = 0
  /\ issued = <<>>

InitNoWait ==
  /\ npc = [n \in Writes |-> "idle"]
  /\ nreq = [n \in Writes |-> None]
  /\ noutcome = [n \in Writes |-> NoOutcome]
  /\ writeQ = <<>>

InitIdleCodec ==
  /\ path = "upload"
  /\ raw = <<>>
  /\ stage = "raw"
  /\ wire = <<>>
  /\ back = <<>>

Init ==
  /\ InitCalls /\ InitMgr /\ InitWrk /\ worker = "getter"
  /\ InitNoWait /\ InitIdleCodec

(***************************************************************************)
(* Lines 171-185 / 245-257: build the request, open a channel on the       *)
(* manager's connection and declare response_<request_id> (exclusive,      *)
(* auto_delete).  The handler does not call                                *)
(* ensure_connection before it touches rabbitmq_handler.connection: with   *)
(* the connection None, closed or dead, line 184 / 256 raises and the      *)
(* `except Exception` of line 237 / 326 answers 500 with the exception     *)
(* text.                                                                   *)
(***************************************************************************)
ChannelOpens == Usable

Begin(c, ev, p) ==
  /\ ~LoopBlocked
  /\ pc[c] = "idle"
  /\ IF ChannelOpens
     THEN /\ pc' = [pc EXCEPT ![c] = "declared"]
          /\ kind' = [kind EXCEPT ![c] = ev]
          /\ payload' = [payload EXCEPT ![c] = p]
          /\ queue' = [queue EXCEPT ![c] = "live"]
          /\ UNCHANGED <<outcome, connection>>
     ELSE /\ pc' = [pc EXCEPT ![c] = "done"]
          /\ outcome' = [outcome EXCEPT ![c] = Exception500]
          /\ connection' = Detected
          /\ UNCHANGED <<kind, payload, queue>>
  /\ UNCHANGED <<linkAlive, response, elapsed, replies, unacked, readQ,
                 foreignSent, inTime, dropped>>
  /\ UNCHANGED <<mgrVars, wrkVars, nwVars, cdcVars>>

(***************************************************************************)
(* Lines 196-200 / 268-272: basic_consume registers response_callback on   *)
(* the reply queue.  On a dead connection it raises, and the handler       *)
(* answers 500.                                                            *)
(***************************************************************************)
Consume(c) ==
  /\ ~LoopBlocked
  /\ pc[c] = "declared"
  /\ IF Usable
     THEN /\ pc' = [pc EXCEPT ![c] = "consuming"]
          /\ UNCHANGED <<outcome, connection>>
     ELSE /\ pc' = [pc EXCEPT ![c] = "done"]
          /\ outcome' = [outcome EXCEPT ![c] = Exception500]
          /\ connection' = Detected
  /\ UNCHANGED <<linkAlive, kind, payload, response, elapsed, busVars, inTime,
                 dropped>>
  /\ UNCHANGED <<mgrVars, wrkVars, nwVars, cdcVars>>

\* (mutant) a handler that publishes the request as soon as the reply
\* queue is declared
PublishesUnheard(c) == pc[c] = "declared"

\* The statement order of the handler: publish_message (line 204 / 276)
\* comes after basic_consume (line 196 / 268).
PublishesNext(c) == pc[c] = "consuming"

(***************************************************************************)
(* Lines 204-215 / 276-287: publish_message(READ_QUEUE, ...) with          *)
(* reply_to, correlation_id and delivery_mode=2, then start_time.          *)
(* publish_message returns only True (lines 75-88): with a usable          *)
(* connection at once, otherwise after the reconnect loop.                 *)
(***************************************************************************)
Publish(c) ==
  /\ ~LoopBlocked
  /\ PublishesNext(c)
  /\ IF Usable
     THEN /\ readQ' = Append(readQ, Request(c, kind[c], payload[c]))
          /\ pc' = [pc EXCEPT ![c] = "wait"]
     ELSE /\ pc' = [pc EXCEPT ![c] = "publishing"]
          /\ UNCHANGED readQ
  /\ connection' = Detected
  /\ elapsed' = [elapsed EXCEPT ![c] = 0]
  /\ UNCHANGED <<linkAlive, kind, payload, response, outcome, queue,
                 replies, unacked, foreignSent, inTime, dropped>>
  /\ UNCHANGED <<mgrVars, wrkVars, nwVars, cdcVars>>

\* ensure_connection's connect() succeeds once the bus is reachable again;
\* the request goes out on the new connection's channel.
PublishResume(c) ==
  /\ pc[c] = "publishing"
  /\ connection' = "open"
  /\ linkAlive' = TRUE
  /\ readQ' = Append(readQ, Request(c, kind[c], payload[c]))
  /\ pc' = [pc EXCEPT ![c] = "wait"]
  /\ elapsed' = [elapsed EXCEPT ![c] = 0]
  /\ UNCHANGED <<kind, payload, response, outcome, queue, replies,
                 unacked, foreignSent, inTime, dropped>>
  /\ UNCHANGED <<mgrVars, wrkVars, nwVars, cdcVars>>

(***************************************************************************)
(* json.dumps / json.loads of an envelope: the body on the wire is a text, *)
(* a value of another type than the object it encodes.                     *)
(***************************************************************************)
json_dumps(v) == [json |-> v]
json_loads(b) == b.json

(***************************************************************************)
(* response_callback, lines 188-193 / 260-265: only a message whose        *)
(* correlation id is the call's request id is decoded, stored and          *)
(* acknowledged; any other message is left as delivered, unacknowledged.   *)
(***************************************************************************)
\* (mutant) a callback that takes whatever its consumer is handed
CallbackAcceptsAny(c, m) == TRUE

CallbackAccepts(c, m) == m.correlation_id = c

Matching(c) == {i \in 1..Len(replies[c]) : CallbackAccepts(c, replies[c][i])}

Last(S) == CHOOSE i \in S : \A j \in S : j <= i

ResponseAfter(c) ==
  IF Matching(c) = {} THEN response[c]
  ELSE json_loads(replies[c][Last(Matching(c))].body)

\* process_data_events on the shared connection runs the callbacks of every
\* consumer registered on it, whichever handler called it.
Dispatchable(d) ==
  queue[d] = "live" /\ replies[d] # <<>> /\ pc[d] \notin {"idle", "declared"}

DispatchAll ==
  /\ response' = [d \in Calls |-> IF Dispatchable(d) THEN ResponseAfter(d)
                                  ELSE response[d]]
  /\ unacked' = [d \in Calls |-> IF Dispatchable(d)
                                 THEN unacked[d] + Len(replies[d])
                                      - Cardinality(Matching(d))
                                 ELSE unacked[d]]
  /\ replies' = [d \in Calls |-> IF Dispatchable(d) THEN <<>> ELSE replies[d]]

(***************************************************************************)
(* Lines 228-231 (list_objects) and 300-322 (get_object): what the handler *)
(* answers once the wait loop has ended.                                   *)
(***************************************************************************)
Respond(ev, r) ==
  IF r = None THEN [status |-> 408, kind |-> "timeout", body |-> None]
  ELSE IF ev = "list_objects"
  THEN [status |-> 200,
        kind |-> IF r.tag = "error" THEN "error" ELSE "success", body |-> r]
  ELSE IF r.tag = "error" THEN [status |-> 404, kind |-> "error", body |-> r]
  ELSE IF r.tag = "json" THEN [status |-> 200, kind |-> "success", body |-> r.data]
  ELSE IF r.tag \in {"image", "pdf"}
  THEN [status |-> 200, kind |-> "success", body |-> FromHex(r.data)]
  ELSE Exception500                                      \* KeyError: 'type'

\* The loop condition of line 216 / 288.
KeepWaiting(c) == response[c] = None /\ elapsed[c] < Timeout

(***************************************************************************)
(* The wait loop.  A handler whose loop condition held at its last test is *)
(* inside process_data_events (at most 0.1 s), which delivers what the     *)
(* broker has sent or raises on a lost connection; the exception leaves    *)
(* the handler through `except Exception` (line 237 / 326), past the       *)
(* clean-up.                                                               *)
(***************************************************************************)
PollDispatch(c) ==
  /\ ~LoopBlocked
  /\ pc[c] = "wait"
  /\ response[c] = None
  /\ queue[c] = "live"
  /\ \E d \in Calls : Dispatchable(d)
  /\ DispatchAll
  /\ UNCHANGED <<connVars, pc, kind, payload, outcome, elapsed, queue,
                 readQ, foreignSent, inTime, dropped>>
  /\ UNCHANGED <<mgrVars, wrkVars, nwVars, cdcVars>>

PollRaise(c) ==
  /\ ~LoopBlocked
  /\ pc[c] = "wait"
  /\ response[c] = None
  /\ queue[c] # "live"
  /\ pc' = [pc EXCEPT ![c] = "done"]
  /\ outcome' = [outcome EXCEPT ![c] = Exception500]
  /\ connection' = Detected
  /\ UNCHANGED <<linkAlive, kind, payload, response, elapsed, busVars, inTime,
                 dropped>>
  /\ UNCHANGED <<mgrVars, wrkVars, nwVars, cdcVars>>

(***************************************************************************)
(* The loop condition fails: lines 221-226 / 293-298 cancel the consumer,  *)
(* delete the queue and close the channel (an exception there is logged    *)
(* and swallowed), then the handler answers.                               *)
(***************************************************************************)
\* (mutant) a handler that reports a timeout by the clock once the deadline
\* has passed, whatever the result slot holds
ResultSlotByDeadline(c) == IF elapsed[c] >= Timeout THEN None ELSE response[c]

\* Lines 228 / 300: after the loop and the clean-up the handler tests the
\* result slot, `if response is None`, not the clock.
ResultSlot(c) == response[c]

Finish(c) ==
  /\ ~LoopBlocked
  /\ pc[c] = "wait"
  /\ ~KeepWaiting(c)
  /\ pc' = [pc EXCEPT ![c] = "done"]
  /\ outcome' = [outcome EXCEPT ![c] = Respond(kind[c], ResultSlot(c))]
  /\ response' = [response EXCEPT ![c] = None]
  /\ IF queue[c] = "live"
     THEN /\ queue' = [queue EXCEPT ![c] = "absent"]
          /\ replies' = [replies EXCEPT ![c] = <<>>]
          /\ unacked' = [unacked EXCEPT ![c] = 0]
          /\ UNCHANGED connection
     ELSE /\ connection' = Detected
          /\ UNCHANGED <<queue, replies, unacked>>
  /\ UNCHANGED <<linkAlive, kind, payload, elapsed, readQ, foreignSent, inTime,
                 dropped>>
  /\ UNCHANGED <<mgrVars, wrkVars, nwVars, cdcVars>>

(***************************************************************************)
(* The read worker, object_getter.py process_message (lines 171-208), as   *)
(* the orchestrator sees it: one delivery handled, the reply published to  *)
(* reply_to with the request's correlation id, the delivery acknowledged.  *)
(* The default exchange drops a message routed to a queue that does not    *)
(* exist.  A handler that raises makes the worker nack; the request is     *)
(* requeued.                                                               *)
(***************************************************************************)
ReplyCorrelation(m) == m.correlation_id

ReplyTo(m) == m.reply_to

\* (mutant) a reply that does not carry the request's correlation id
WorkerReplyUntagged(m, result) ==
  [correlation_id |-> Foreign, body |-> json_dumps(result)]

WorkerReply(m, result) ==
  [correlation_id |-> ReplyCorrelation(m), body |-> json_dumps(result)]

\* (mutant) a bus that keeps a message for a queue that was deleted
RoutedAnyway(to) == to \in Calls

\* basic_publish(exchange='', routing_key=properties.reply_to), lines
\* 192-201: the default exchange routes to the queue of that name, and a
\* message whose routing key names no queue is dropped; the publisher is
\* not told.
Routed(to) == to \in Calls /\ queue[to] # "absent"

\* READ_QUEUE is a work queue: any worker process consuming it may take
\* the next message, so requests need not complete in the order sent.
WorkerProcess(i) ==
  /\ i \in 1..Len(readQ)
  /\ LET m == readQ[i]
         result == GetterResult(m.event_type, m.payload)
         to == ReplyTo(m)
         arrives == Routed(to)
     IN  IF result = Raised
         THEN UNCHANGED <<readQ, replies, inTime, dropped>>
         ELSE /\ readQ' = SubSeq(readQ, 1, i - 1) \o SubSeq(readQ, i + 1, Len(readQ))
              /\ replies' = IF arrives
                            THEN [replies EXCEPT ![to] =
                                    Append(@, WorkerReply(m, result))]
                            ELSE replies
              /\ inTime' = IF arrives /\ queue[to] = "live" /\ pc[to] = "wait"
                              /\ elapsed[to] < Timeout /\ ~LoopBlocked
                           THEN [inTime EXCEPT ![to] = TRUE]
                           ELSE inTime
              /\ dropped' = IF to \in Calls /\ queue[to] = "absent"
                            THEN [dropped EXCEPT ![to] = pc[to]]
                            ELSE dropped
  /\ UNCHANGED <<connVars, callVars, queue, unacked, foreignSent>>
  /\ UNCHANGED <<mgrVars, wrkVars, nwVars, cdcVars>>

(***************************************************************************)
(* The environment: the bus and its other clients.                         *)
(***************************************************************************)
\* The connection is lost (broker restart, missed heartbeats, network).
LinkDrop ==
  /\ linkAlive
  /\ linkAlive' = FALSE
  /\ queue' = [c \in Calls |-> IF queue[c] = "live" THEN "orphan" ELSE queue[c]]
  /\ UNCHANGED <<connection, callVars, replies, unacked, readQ, foreignSent,
                 inTime, dropped>>
  /\ UNCHANGED <<mgrVars, wrkVars, nwVars, cdcVars>>

\* The broker deletes an exclusive queue once it sees its connection closed.
BrokerReap(c) ==
  /\ queue[c] = "orphan"
  /\ queue' = [queue EXCEPT ![c] = "absent"]
  /\ replies' = [replies EXCEPT ![c] = <<>>]
  /\ unacked' = [unacked EXCEPT ![c] = 0]
  /\ UNCHANGED <<connVars, callVars, readQ, foreignSent, inTime, dropped>>
  /\ UNCHANGED <<mgrVars, wrkVars, nwVars, cdcVars>>

\* Another client of the bus publishes to a reply queue a message that
\* carries another call's, or nobody's, correlation id.
StaleBody == json_dumps([tag |-> "error", error |-> "stale"])

ForeignReply(c, corr) ==
  /\ foreignSent < MaxForeign
  /\ queue[c] # "absent"
  /\ corr # c
  /\ foreignSent' = foreignSent + 1
  /\ replies' = [replies EXCEPT ![c] =
                   Append(@, [correlation_id |-> corr, body |-> StaleBody])]
  /\ UNCHANGED <<connVars, callVars, queue, unacked, readQ, inTime, dropped>>
  /\ UNCHANGED <<mgrVars, wrkVars, nwVars, cdcVars>>

(***************************************************************************)
(* Time.  One Tick is TimeUnit seconds; an iteration of the wait loop      *)
(* takes 0.11 s, so the clock advances only when no handler has a step it  *)
(* takes at once - or when time.sleep in publish_message blocks them all.  *)
(***************************************************************************)
Ready ==
  \E c \in Calls :
     \/ pc[c] \in {"declared", "consuming"}
     \/ pc[c] = "wait" /\ ~KeepWaiting(c)
     \/ pc[c] = "wait" /\ queue[c] = "live" /\ \E d \in Calls : Dispatchable(d)

Advance(t) == IF t + TimeUnit < Timeout THEN t + TimeUnit ELSE Timeout

Tick ==
  /\ LoopBlocked \/ ~Ready
  /\ \E c \in Calls : pc[c] = "wait" /\ elapsed[c] < Timeout
  /\ elapsed' = [c \in Calls |-> IF pc[c] = "wait" THEN Advance(elapsed[c])
                                 ELSE elapsed[c]]
  /\ UNCHANGED <<connVars, pc, kind, payload, response, outcome, busVars, inTime,
                 dropped>>
  /\ UNCHANGED <<mgrVars, wrkVars, nwVars, cdcVars>>

Events == {"list_objects", "get_object"}

Next ==
  \/ \E c \in Calls, ev \in Events : \E p \in PayloadsOf(ev) : Begin(c, ev, p)
  \/ \E c \in Calls : Consume(c)
  \/ \E c \in Calls : Publish(c)
  \/ \E c \in Calls : PublishResume(c)
  \/ \E c \in Calls : PollDispatch(c)
  \/ \E c \in Calls : PollRaise(c)
  \/ \E c \in Calls : Finish(c)
  \/ \E i \in Calls : WorkerProcess(i)
  \/ LinkDrop
  \/ \E c \in Calls : BrokerReap(c)
  \/ \E c \in Calls, corr \in Calls \cup {Foreign} : ForeignReply(c, corr)
  \/ Tick

Spec == Init /\ [][Next]_vars

(***************************************************************************)
(* SpecNoFault: the runs of Spec in which the bus never fails.             *)
(***************************************************************************)
InitNoFault == Init /\ connection = "open"

NextNoFault ==
  \/ \E c \in Calls, ev \in Events : \E p \in PayloadsOf(ev) : Begin(c, ev, p)
  \/ \E c \in Calls : Consume(c)
  \/ \E c \in Calls : Publish(c)
  \/ \E c \in Calls : PollDispatch(c)
  \/ \E c \in Calls : Finish(c)
  \/ \E i \in Calls : WorkerProcess(i)
  \/ \E c \in Calls, corr \in Calls \cup {Foreign} : ForeignReply(c, corr)
  \/ Tick

SpecNoFault == InitNoFault /\ [][NextNoFault]_vars

(***************************************************************************)
(* FairSpec: Spec with the scheduling the event loop gives - a handler     *)
(* that can take a step takes it, time passes - and a bus that becomes     *)
(* reachable again for a publish_message that is reconnecting.             *)
(***************************************************************************)
Fairness ==
  /\ WF_vars(Tick)
  /\ \A c \in Calls : /\ WF_vars(Consume(c))
                      /\ WF_vars(Publish(c))
                      /\ WF_vars(PublishResume(c))
                      /\ WF_vars(PollDispatch(c))
                      /\ WF_vars(Finish(c))

FairSpec == Init /\ [][Next]_vars /\ Fairness

(***************************************************************************)
(* SpecConn: class RabbitMQConnection (orchestrator.py lines 25-88) step   *)
(* by step, under one publish_message call at a time.  publish_message is  *)
(* synchronous - it holds the event loop from its call to its return - so  *)
(* no handler runs between its steps; what changes under it is the bus.    *)
(***************************************************************************)
MaxMessages == 2     \* publish_message calls in a run
MaxWaits == 7        \* length of the recorded history of delays
MaxFaults == 3       \* bus outages and connection drops in a run

max_reconnect_delay == 30

Min(a, b) == IF a < b THEN a ELSE b

\* (mutant) doubling without the cap
NextDelayUncapped(d) == d * 2

\* Lines 65, 71, 88: min(self.reconnect_delay * 2, self.max_reconnect_delay).
NextDelay(d) == Min(d * 2, max_reconnect_delay)

\* (mutant) a connect that leaves the delay where the failures took it
DelayKept(d) == d

\* Line 51: the delay after a successful connection.
DelayAfterConnect(d) == 1

\* (mutant) a check that only looks for a connection never made
NeedsConnectNoneOnly == connection = "none"

\* Lines 34, 61: self.connection is None or self.connection.is_closed.
NeedsConnect == connection \in {"none", "closed"}

\* Lines 32-55: what connect() returns.  It returns None, which its caller
\* reads as a failure, when the connection is already open; between the
\* test of line 61 and the test of line 34 nothing runs.
ConnectResult ==
  IF NeedsConnect THEN (IF busUp THEN "True" ELSE "False") ELSE "None"

\* Line 78: basic_publish on self.channel completes iff the channel belongs
\* to the open connection and that connection still reaches the bus.
WriteCompletes == connection = "open" /\ linkAlive /\ channel = "current"

\* (mutant) a publish_message that reports a failed write to its caller
AfterWriteReport(ok) ==
  [ppc |-> "done", returned |-> IF ok THEN "True" ELSE "False"]

\* Lines 76-88: `return True` after a basic_publish that completed; the
\* `except Exception` of line 85 sleeps and lets the loop go round.
AfterWrite(ok) ==
  IF ok THEN [ppc |-> "done", returned |-> "True"]
        ELSE [ppc |-> "sleepP", returned |-> returned]

\* Line 73: a handler calls publish_message.
CallPublish ==
  /\ ppc \in {"idle", "done"}
  /\ sent < MaxMessages
  /\ ppc' = "ensure"
  /\ returned' = "none"
  /\ retried' = FALSE
  /\ UNCHANGED <<connVars, channel, reconnect_delay, busUp, sent, waits, faults>>
  /\ UNCHANGED <<callVars, busVars, inTime, dropped, wrkVars, nwVars, cdcVars>>

\* Lines 59-67 with connect() of lines 32-55 inlined: one turn of the loop
\* of ensure_connection up to its `return True` or its sleep.  A failed
\* connect() leaves self.connection as it was when BlockingConnection
\* raised, and holds a closed connection with a dead channel when the
\* channel or a queue_declare raised.
EnsureStep ==
  /\ ppc = "ensure"
  /\ IF ~NeedsConnect
     THEN /\ ppc' = "write"
          /\ UNCHANGED <<connection, linkAlive, channel, reconnect_delay, waits>>
     ELSE IF ConnectResult = "True"
          THEN /\ connection' = "open"
               /\ linkAlive' = TRUE
               /\ channel' = "current"
               /\ reconnect_delay' = DelayAfterConnect(reconnect_delay)
               /\ waits' = <<>>
               /\ ppc' = "write"
          ELSE /\ \E late \in BOOLEAN :
                    /\ connection' = IF late THEN "closed" ELSE connection
                    /\ channel' = IF late THEN "stale" ELSE channel
               /\ ppc' = "sleepE"
               /\ UNCHANGED <<linkAlive, reconnect_delay, waits>>
  /\ UNCHANGED <<returned, busUp, sent, faults, retried>>
  /\ UNCHANGED <<callVars, busVars, inTime, dropped, wrkVars, nwVars, cdcVars>>

\* Lines 64-65, 70-71 and 87-88: time.sleep(self.reconnect_delay), then the
\* delay is doubled up to the cap and the loop goes round.
SleepStep ==
  /\ ppc \in {"sleepE", "sleepP"}
  /\ waits' = IF Len(waits) < MaxWaits THEN Append(waits, reconnect_delay)
                                       ELSE waits
  /\ reconnect_delay' = NextDelay(reconnect_delay)
  /\ ppc' = "ensure"
  /\ retried' = TRUE
  /\ UNCHANGED <<connVars, channel, returned, busUp, sent, faults>>
  /\ UNCHANGED <<callVars, busVars, inTime, dropped, wrkVars, nwVars, cdcVars>>

\* (mutant) a connection that still reads as open after its write failed
ConnectionKeptAfterWrite(ok) == connection

\* Line 78 and the test of line 61: publish_message does not touch
\* self.connection when basic_publish raises; pika closes a connection
\* whose socket fails, so is_closed holds when the loop comes round.
ConnectionAfterWrite(ok) == IF ok THEN connection ELSE "closed"

\* Lines 78-88: basic_publish and what follows it.  A write that fails
\* leaves the connection closed (pika closes a connection whose socket
\* fails).
WriteStep ==
  /\ ppc = "write"
  /\ ppc' = AfterWrite(WriteCompletes).ppc
  /\ returned' = AfterWrite(WriteCompletes).returned
  /\ sent' = IF WriteCompletes THEN sent + 1 ELSE sent
  /\ connection' = ConnectionAfterWrite(WriteCompletes)
  /\ channel' = IF WriteCompletes THEN channel ELSE "stale"
  /\ UNCHANGED <<linkAlive, reconnect_delay, busUp, waits, faults, retried>>
  /\ UNCHANGED <<callVars, busVars, inTime, dropped, wrkVars, nwVars, cdcVars>>

\* The bus goes away, and with it the connection's socket.
BusDown ==
  /\ busUp
  /\ faults < MaxFaults
  /\ busUp' = FALSE
  /\ linkAlive' = FALSE
  /\ faults' = faults + 1
  /\ UNCHANGED <<connection, channel, reconnect_delay, ppc, returned, sent, waits, retried>>
  /\ UNCHANGED <<callVars, busVars, inTime, dropped, wrkVars, nwVars, cdcVars>>

\* The bus accepts connections again.
BusBack ==
  /\ ~busUp
  /\ busUp' = TRUE
  /\ UNCHANGED <<connVars, channel, reconnect_delay, ppc, returned, sent, waits, faults, retried>>
  /\ UNCHANGED <<callVars, busVars, inTime, dropped, wrkVars, nwVars, cdcVars>>

\* The connection's socket is lost while the bus stays up.
ConnDrop ==
  /\ linkAlive
  /\ faults < MaxFaults
  /\ linkAlive' = FALSE
  /\ faults' = faults + 1
  /\ UNCHANGED <<connection, channel, reconnect_delay, ppc, returned, busUp, sent, waits, retried>>
  /\ UNCHANGED <<callVars, busVars, inTime, dropped, wrkVars, nwVars, cdcVars>>

NextConn ==
  \/ CallPublish
  \/ EnsureStep
  \/ SleepStep
  \/ WriteStep
  \/ BusDown
  \/ BusBack
  \/ ConnDrop

SpecConn == Init /\ [][NextConn]_vars

\* publish_message runs to its next step; nothing is assumed of the bus.
FairSpecConn ==
  Init /\ [][NextConn]_vars
       /\ WF_vars(EnsureStep) /\ WF_vars(SleepStep) /\ WF_vars(WriteStep)


(***************************************************************************)
(* SpecWorker: process_message of a worker (object_getter.py lines         *)
(* 171-208, object_receiver.py lines 64-102) step by step.  The worker is  *)
(* a blocking pika consumer: one process_message call at a time, the next  *)
(* delivery handled after the call returns.                                *)
(***************************************************************************)
MaxCount == 2        \* basic_nack calls counted per message

EmptyPayload == <<>>                 \* "payload": {}

PngUpload == [content |-> Hex(<<137, 80>>), filename |-> "a.png"]
PdfUpload == [content |-> Hex(<<37, 80>>), filename |-> "a.pdf"]
OddUpload == [content |-> <<"8">>, filename |-> "a.png"]
NewObject == [object_id |-> "o3", data |-> <<123, 125>>]

\* bytes.fromhex raises ValueError on a string that is not pairs of digits.
ValidHex(h) ==
  /\ Len(h) % 2 = 0
  /\ \A i \in 1..Len(h) : \E k \in 1..16 : HexDigits[k] = h[i]

\* magic.from_buffer(content, mime=True), by the first byte of the content.
MimeOf(bytes) ==
  IF bytes = <<>> THEN "application/x-empty"
  ELSE IF bytes[1] = 137 THEN "image/png"
  ELSE IF bytes[1] = 37 THEN "application/pdf"
  ELSE "application/octet-stream"

\* object_receiver.py handle_upload_image (lines 109-148) and
\* handle_upload_pdf (lines 150-189): the whole body is inside the try, so
\* every fault, an absent payload included, is returned as {"error": ...}.
handle_upload(p, wanted) ==
  IF IsAbsent(p)
  THEN [tag |-> "error", error |-> "'NoneType' object is not subscriptable"]
  ELSE IF ~Has(p, "content") THEN [tag |-> "error", error |-> "'content'"]
  ELSE IF ~ValidHex(p.content)
  THEN [tag |-> "error", error |-> "non-hexadecimal number found in fromhex()"]
  ELSE IF ~Has(p, "filename") THEN [tag |-> "error", error |-> "'filename'"]
  ELSE LET mime_type == MimeOf(FromHex(p.content))
           accepted == IF wanted = "image" THEN mime_type = "image/png"
                                           ELSE mime_type = "application/pdf"
       IN  IF ~accepted
           THEN [tag |-> "error", error |-> "Invalid file type"]
           ELSE [tag |-> "uploaded", object_id |-> "uuid", filename |-> p.filename]

handle_upload_image(p) == handle_upload(p, "image")

handle_upload_pdf(p) == handle_upload(p, "pdf")

\* object_receiver.py handle_create_object (lines 104-107): payload.get
\* with no try around it, and no return statement.
handle_create_object(p) == IF IsAbsent(p) THEN Raised ELSE None

\* object_receiver.py process_message lines 74-82.
ReceiverResult(event_type, p) ==
  IF event_type = "upload_image" THEN handle_upload_image(p)
  ELSE IF event_type = "upload_pdf" THEN handle_upload_pdf(p)
  ELSE IF event_type = "create_object" THEN handle_create_object(p)
  ELSE [tag |-> "error", error |-> "Unknown event type"]

\* (mutant) a dispatch that faults on an event type it has no handler for
WorkerResultStrict(w, event_type, p) ==
  IF w = "getter"
  THEN IF event_type \in {"list_objects", "get_object"}
       THEN GetterResult(event_type, p) ELSE Raised
  ELSE IF event_type \in {"upload_image", "upload_pdf", "create_object"}
       THEN ReceiverResult(event_type, p) ELSE Raised

WorkerResult(w, event_type, p) ==
  IF w = "getter" THEN GetterResult(event_type, p)
                  ELSE ReceiverResult(event_type, p)

SupportedEvents(w) ==
  IF w = "getter" THEN {"list_objects", "get_object"}
                  ELSE {"upload_image", "upload_pdf", "create_object"}

\* The payloads a message of an event type is sent with.
InboundPayloads(ev) ==
  IF ev = "list_objects" THEN {NoPayload, EmptyPayload} \cup ListPayloads
  ELSE IF ev = "get_object" THEN {NoPayload, EmptyPayload} \cup GetPayloads
  ELSE IF ev = "upload_image" THEN {NoPayload, EmptyPayload, PngUpload, PdfUpload, OddUpload}
  ELSE IF ev = "upload_pdf" THEN {NoPayload, PdfUpload, PngUpload}
  ELSE IF ev = "create_object" THEN {NoPayload, EmptyPayload, NewObject}
  ELSE {NoPayload}

\* What a publisher can put on the worker's queue: a body that is not JSON,
\* or a request envelope; with or without a reply address.
Inbound(w, id) ==
  {[decodable |-> FALSE, event_type |-> "", payload |-> NoPayload,
    reply_to |-> r, correlation_id |-> id] : r \in {0, id}}
  \cup
  UNION {{[decodable |-> TRUE, event_type |-> ev, payload |-> p,
           reply_to |-> r, correlation_id |-> id] :
             p \in InboundPayloads(ev), r \in {0, id}} :
         ev \in SupportedEvents(w) \cup {"bogus"}}

\* basic_consume (object_getter.py lines 83-87, object_receiver.py lines
\* 226-230) is not preceded by a basic_qos call, so the channel keeps the
\* protocol's prefetch count, 0: no limit on unacknowledged deliveries.
prefetch_count == 0

\* Deliveries the broker counts as unacknowledged on the worker's channel.
Outstanding ==
  IF wlink = "up" THEN Len(held) + (IF cur # 0 THEN 1 ELSE 0) ELSE 0

PrefetchAllows == prefetch_count = 0 \/ Outstanding < prefetch_count

\* A publisher puts message id on the worker's queue.
Arrive(id, m) ==
  /\ msg[id] = None
  /\ msg' = [msg EXCEPT ![id] = m]
  /\ inbox' = Append(inbox, id)
  /\ UNCHANGED <<worker, wpc, cur, wres, outbox, acks, nacks, invoked, held,
                 wlink, runs, wdrops, issued>>
  /\ UNCHANGED <<mainVars, mgrVars, nwVars, cdcVars>>

\* The broker sends the head of the queue to the consumer, where it waits
\* for process_data_events.
Push ==
  /\ wlink = "up"
  /\ inbox # <<>>
  /\ PrefetchAllows
  /\ held' = Append(held, Head(inbox))
  /\ inbox' = Tail(inbox)
  /\ UNCHANGED <<worker, msg, wpc, cur, wres, outbox, acks, nacks, invoked,
                 wlink, runs, wdrops, issued>>
  /\ UNCHANGED <<mainVars, mgrVars, nwVars, cdcVars>>

\* (mutant) a dispatch that starts a callback while another one runs
LoopFreeAlways == TRUE

\* consume_messages (object_getter.py lines 98-106, object_receiver.py
\* lines 241-249): process_data_events calls process_message for one
\* delivery after the other, each call running to its end.
LoopFree == wpc = "idle"

\* process_data_events calls process_message for the oldest delivery.
Deliver ==
  /\ LoopFree
  /\ held # <<>>
  /\ cur' = Head(held)
  /\ held' = Tail(held)
  /\ wpc' = "handle"
  /\ issued' = <<>>
  /\ UNCHANGED <<worker, msg, inbox, wres, outbox, acks, nacks, invoked,
                 wlink, runs, wdrops>>
  /\ UNCHANGED <<mainVars, mgrVars, nwVars, cdcVars>>

\* Lines 181-186 (getter) / 74-79 (receiver): a handle_* function is called
\* for a decoded request whose event type is one of the if / elif branches.
HandlerCalled(w, m) == m.decodable /\ m.event_type \in SupportedEvents(w)

\* (mutant) a decode fault answered like a handler fault
DispatchLenient(w, m) ==
  IF ~m.decodable THEN [tag |-> "error", error |-> "Expecting value"]
  ELSE WorkerResult(w, m.event_type, m.payload)

\* Lines 174-189 (getter) / 67-82 (receiver): json.loads of the body, then
\* the handler of the event type.  Everything that raises here lands in the
\* `except Exception` of process_message.
Dispatch(w, m) ==
  IF ~m.decodable THEN Raised
  ELSE WorkerResult(w, m.event_type, m.payload)

\* (mutant) a process_message that acknowledges as soon as the handler is back
AfterDispatchAck(r) == IF r = Raised THEN "nack" ELSE "ack"

\* The statement order of process_message: the reply (line 192 / 87)
\* follows the handlers, basic_ack (line 203 / 98) follows the reply, and
\* an exception goes to the basic_nack of the except clause.
AfterDispatch(r) == IF r = Raised THEN "nack" ELSE "reply"

Handle ==
  /\ wpc = "handle"
  /\ LET r == Dispatch(worker, msg[cur])
     IN  /\ wpc' = AfterDispatch(r)
         /\ wres' = IF r = Raised THEN wres ELSE r
  /\ invoked' = [invoked EXCEPT ![cur] = @ \/ HandlerCalled(worker, msg[cur])]
  /\ runs' = [runs EXCEPT ![cur] =
                IF HandlerCalled(worker, msg[cur]) /\ @ < MaxCount THEN @ + 1
                                                                  ELSE @]
  /\ UNCHANGED <<worker, msg, inbox, cur, outbox, acks, nacks, held, wlink,
                 wdrops, issued>>
  /\ UNCHANGED <<mainVars, mgrVars, nwVars, cdcVars>>

\* Lines 192-201 (getter) / 87-96 (receiver): the reply, if the request
\* named a reply address, with the request's correlation id.  It is
\* published with ch.basic_publish inside the try: on a lost connection it
\* raises and the except clause takes over.
Reply ==
  /\ wpc = "reply"
  /\ IF msg[cur].reply_to = 0
     THEN wpc' = "ack" /\ UNCHANGED outbox
     ELSE IF wlink = "up"
     THEN /\ outbox' = Append(outbox, [to |-> msg[cur].reply_to,
                                       correlation_id |-> msg[cur].correlation_id,
                                       body |-> json_dumps(wres)])
          /\ wpc' = "ack"
     ELSE wpc' = "nack" /\ UNCHANGED outbox
  /\ UNCHANGED <<worker, msg, inbox, cur, wres, acks, nacks, invoked, held,
                 wlink, runs, wdrops, issued>>
  /\ UNCHANGED <<mainVars, mgrVars, nwVars, cdcVars>>

\* Line 203 (getter) / 98 (receiver): basic_ack; on a lost connection it
\* raises and the except clause takes over.
Ack ==
  /\ wpc = "ack"
  /\ IF wlink = "up"
     THEN /\ acks' = [acks EXCEPT ![cur] = @ + 1]
          /\ wpc' = "idle"
          /\ cur' = 0
          /\ wres' = None
     ELSE /\ wpc' = "nack"
          /\ UNCHANGED <<acks, cur, wres>>
  /\ issued' = Append(issued, "ack")
  /\ UNCHANGED <<worker, msg, inbox, outbox, nacks, invoked, held, wlink,
                 runs, wdrops>>
  /\ UNCHANGED <<mainVars, mgrVars, nwVars, cdcVars>>

\* Line 208 (getter) / 102 (receiver): basic_nack, requeue by default: the
\* broker puts the message back at the head of the queue.  On a lost
\* connection basic_nack raises too; the exception leaves process_message
\* and is logged by consume_messages.
Nack ==
  /\ wpc = "nack"
  /\ IF wlink = "up"
     THEN /\ nacks' = [nacks EXCEPT ![cur] = IF @ < MaxCount THEN @ + 1 ELSE @]
          /\ inbox' = <<cur>> \o inbox
     ELSE UNCHANGED <<nacks, inbox>>
  /\ issued' = Append(issued, "nack")
  /\ wpc' = "idle"
  /\ cur' = 0
  /\ UNCHANGED <<worker, msg, wres, outbox, acks, invoked, held, wlink, runs,
                 wdrops>>
  /\ UNCHANGED <<mainVars, mgrVars, nwVars, cdcVars>>

NextWorker ==
  \/ \E id \in Ids : \E m \in Inbound(worker, id) : Arrive(id, m)
  \/ Push
  \/ Deliver
  \/ Handle
  \/ Reply
  \/ Ack
  \/ Nack

InitWorker ==
  /\ InitCalls /\ InitMgr /\ InitWrk /\ worker \in {"getter", "receiver"}
  /\ InitNoWait /\ InitIdleCodec

SpecWorker == InitWorker /\ [][NextWorker]_vars

\* The consumer loop of consume_messages keeps calling process_data_events,
\* and process_message runs to its end.
FairSpecWorker ==
  InitWorker /\ [][NextWorker]_vars
             /\ WF_vars(Push) /\ WF_vars(Deliver) /\ WF_vars(Handle)
             /\ WF_vars(Reply) /\ WF_vars(Ack) /\ WF_vars(Nack)

(***************************************************************************)
(* SpecWorkerLink: SpecWorker with a connection that can be lost.  The     *)
(* workers hold one BlockingConnection, opened in startup_event, and       *)
(* never reopen it; the service gets a new one when it is started again.   *)
(* When the broker sees a connection closed it puts every delivery that    *)
(* was not acknowledged on it back in the queue.                           *)
(***************************************************************************)
MaxDrops == 1

\* (mutant) a broker that forgets the deliveries of a closed connection
RequeueNothing(q) == q

\* The deliveries outstanding on the connection, oldest first, go back to
\* the head of the queue.
RequeueOnClose(q) == (IF cur # 0 THEN <<cur>> ELSE <<>>) \o held \o q

WLinkDrop ==
  /\ wlink = "up"
  /\ wdrops < MaxDrops
  /\ wlink' = "down"
  /\ wdrops' = wdrops + 1
  /\ inbox' = RequeueOnClose(inbox)
  /\ held' = <<>>
  /\ UNCHANGED <<worker, msg, wpc, cur, wres, outbox, acks, nacks, invoked, runs,
                 issued>>
  /\ UNCHANGED <<mainVars, mgrVars, nwVars, cdcVars>>

\* The service is started again: startup_event (object_getter.py lines
\* 48-96, object_receiver.py lines 191-239) connects and registers the
\* consumer.
Restart ==
  /\ wlink = "down"
  /\ wlink' = "up"
  /\ wpc' = "idle"
  /\ cur' = 0
  /\ wres' = None
  /\ UNCHANGED <<worker, msg, inbox, outbox, acks, nacks, invoked, held, runs,
                 wdrops, issued>>
  /\ UNCHANGED <<mainVars, mgrVars, nwVars, cdcVars>>

NextWorkerLink ==
  \/ \E id \in Ids : \E m \in Inbound(worker, id) : Arrive(id, m)
  \/ Push
  \/ Deliver
  \/ Handle
  \/ Reply
  \/ Ack
  \/ Nack
  \/ WLinkDrop
  \/ Restart

SpecWorkerLink == InitWorker /\ [][NextWorkerLink]_vars

(***************************************************************************)
(* SpecNoWait: the fire-and-forget handlers create_object (orchestrator.py *)
(* lines 102-130), upload_image (132-162) and upload_pdf (330-360), beside *)
(* call-and-wait handlers that have declared their reply queues.  After    *)
(* `await file.read()` a handler runs to its return without yielding; it   *)
(* stops only inside publish_message, and then the event loop stops too.   *)
(***************************************************************************)
WriteOps == {"create_object", "upload_image", "upload_pdf"}

\* The HTTP bodies: a JSON object with or without 'data'; an uploaded file.
WriteBodies(op) ==
  IF op = "create_object"
  THEN {[data |-> <<123, 125>>], EmptyPayload}
  ELSE {[filename |-> "a.png", content |-> <<137, 80>>],
        [filename |-> "a.pdf", content |-> <<37, 80>>],
        [filename |-> "a.bin", content |-> <<>>]}

\* Lines 107, 139, 337: the checks that raise HTTPException(400).
Valid(op, body) ==
  IF op = "create_object" THEN Has(body, "data")
  ELSE IF op = "upload_image" THEN MimeOf(body.content) = "image/png"
  ELSE MimeOf(body.content) = "application/pdf"

\* Lines 112-114, 144-148, 342-346: the payload of the request.
WritePayload(op, body) ==
  IF op = "create_object" THEN [data |-> body.data]
  ELSE [filename |-> body.filename, content |-> Hex(body.content),
        mime_type |-> MimeOf(body.content)]

\* Lines 115, 149, 347: str(uuid.uuid4()).
WriteRequestId(n) == [tag |-> "uuid", n |-> n]

\* Line 82: properties or pika.BasicProperties(delivery_mode=2); the three
\* handlers pass no properties.
DefaultProperties ==
  [reply_to |-> None, correlation_id |-> None, delivery_mode |-> 2]

\* (mutant) a write request that names a reply address
WriteRequestWithReply(n, op, body) ==
  [event_type |-> op, payload |-> WritePayload(op, body),
   request_id |-> WriteRequestId(n), reply_to |-> WriteRequestId(n),
   correlation_id |-> DefaultProperties.correlation_id,
   delivery_mode |-> DefaultProperties.delivery_mode]

\* Lines 110-123, 142-155, 340-353: the message and its properties.
WriteRequest(n, op, body) ==
  [event_type |-> op, payload |-> WritePayload(op, body),
   request_id |-> WriteRequestId(n),
   reply_to |-> DefaultProperties.reply_to,
   correlation_id |-> DefaultProperties.correlation_id,
   delivery_mode |-> DefaultProperties.delivery_mode]

\* Lines 124, 156, 354: the answer after publish_message returned True.
Accepted(n) == [status |-> 200, kind |-> "success", body |-> WriteRequestId(n)]

\* Lines 128-130, 160-162, 358-360: `except Exception` also catches the
\* HTTPException(400) raised inside the try and answers 500.
Rejected == [status |-> 500, kind |-> "exception", body |-> None]

\* The handler from its call to its return, or to the point where
\* publish_message starts to sleep and retry.
NoWaitCall(n, op, body) ==
  /\ ~LoopBlocked
  /\ npc[n] = "idle"
  /\ nreq' = [nreq EXCEPT ![n] = [op |-> op, body |-> body]]
  /\ IF ~Valid(op, body)
     THEN /\ npc' = [npc EXCEPT ![n] = "done"]
          /\ noutcome' = [noutcome EXCEPT ![n] = Rejected]
          /\ UNCHANGED <<writeQ, connection>>
     ELSE IF Usable
     THEN /\ writeQ' = Append(writeQ, WriteRequest(n, op, body))
          /\ npc' = [npc EXCEPT ![n] = "done"]
          /\ noutcome' = [noutcome EXCEPT ![n] = Accepted(n)]
          /\ UNCHANGED connection
     ELSE /\ npc' = [npc EXCEPT ![n] = "publishing"]
          /\ connection' = Detected
          /\ UNCHANGED <<writeQ, noutcome>>
  /\ UNCHANGED <<linkAlive, callVars, busVars, inTime, dropped>>
  /\ UNCHANGED <<mgrVars, wrkVars, cdcVars>>

\* Lines 75-88: publish_message has reconnected and basic_publish completed.
NoWaitResume(n) ==
  /\ npc[n] = "publishing"
  /\ connection' = "open"
  /\ linkAlive' = TRUE
  /\ writeQ' = Append(writeQ, WriteRequest(n, nreq[n].op, nreq[n].body))
  /\ npc' = [npc EXCEPT ![n] = "done"]
  /\ noutcome' = [noutcome EXCEPT ![n] = Accepted(n)]
  /\ UNCHANGED <<nreq, callVars, busVars, inTime, dropped>>
  /\ UNCHANGED <<mgrVars, wrkVars, cdcVars>>

NextNoWait ==
  \/ \E n \in Writes, op \in WriteOps : \E body \in WriteBodies(op) :
        NoWaitCall(n, op, body)
  \/ \E n \in Writes : NoWaitResume(n)
  \/ \E c \in Calls, ev \in Events : \E p \in PayloadsOf(ev) : Begin(c, ev, p)
  \/ \E c \in Calls : Consume(c)
  \/ \E c \in Calls : Publish(c)
  \/ \E c \in Calls : PublishResume(c)
  \/ LinkDrop
  \/ \E c \in Calls : BrokerReap(c)

SpecNoWait == Init /\ [][NextNoWait]_vars

(***************************************************************************)
(* SpecHttp: the end of a call-and-wait handler (orchestrator.py lines     *)
(* 220-231 and 292-319) for every outcome of the wait: no reply, or any    *)
(* reply a handler of the read worker can produce, the {"error": str(e)}   *)
(* of its `except Exception` included.                                     *)
(***************************************************************************)
\* object_getter.py lines 274-276 / 325-327: a fault of the blob store
\* inside the handler's try.
StoreFault == [tag |-> "error", error |-> "S3 operation failed"]

\* What the handler of event type ev can return for payload p.
HandlerResults(ev, p) == {GetterResult(ev, p), StoreFault}

InitHttp ==
  /\ connection = "open" /\ linkAlive = TRUE
  /\ pc = [c \in Calls |-> "wait"]
  /\ kind \in [Calls -> Events]
  /\ payload \in [Calls -> ListPayloads \cup GetPayloads]
  /\ \A c \in Calls : payload[c] \in PayloadsOf(kind[c])
  /\ response \in [Calls -> UNION {HandlerResults(ev, p) : ev \in Events,
                                       p \in ListPayloads \cup GetPayloads} \cup {None}]
  /\ \A c \in Calls : response[c] \in HandlerResults(kind[c], payload[c]) \cup {None}
  /\ outcome = [c \in Calls |-> NoOutcome]
  /\ elapsed = [c \in Calls |-> IF response[c] = None THEN Timeout ELSE 0]
  /\ queue = [c \in Calls |-> "live"]
  /\ replies = [c \in Calls |-> <<>>]
  /\ unacked = [c \in Calls |-> 0]
  /\ readQ = <<>>
  /\ foreignSent = 0
  /\ inTime = [c \in Calls |-> response[c] # None]
  /\ dropped = [c \in Calls |-> "no"]
  /\ InitMgr /\ InitWrk /\ worker = "getter" /\ InitNoWait /\ InitIdleCodec

NextHttp == \E c \in Calls : Finish(c)

SpecHttp == InitHttp /\ [][NextHttp]_vars

(***************************************************************************)
(* SpecCodec: a binary content on its way through the envelope.  On the    *)
(* upload path the orchestrator puts content.hex() into the payload        *)
(* (orchestrator.py lines 142-150, 340-348) and the write worker takes it  *)
(* back with bytes.fromhex (object_receiver.py lines 112, 153); on the     *)
(* fetch path the read worker puts content.hex() into its reply            *)
(* (object_getter.py handle_get_object) and the orchestrator takes it back *)
(* with bytes.fromhex (orchestrator.py line 310).  Either way the hex      *)
(* string crosses the bus inside a JSON body.                              *)
(***************************************************************************)
MaxLen == 2

Bytes == 0..255
ByteSamples == {0, 15, 16, 255}

\* The contents tried: the empty one, every single byte, and the longer
\* sequences over the sample bytes.
Contents ==
  {<<>>} \cup {<<b>> : b \in Bytes}
         \cup UNION {[1..n -> ByteSamples] : n \in 2..MaxLen}

InitCodec ==
  /\ InitCalls /\ InitMgr /\ InitWrk /\ worker = "getter" /\ InitNoWait
  /\ path \in {"upload", "fetch"}
  /\ raw \in Contents
  /\ stage = "raw"
  /\ wire = <<>>
  /\ back = <<>>

\* upload_image / upload_pdf: the payload with content.hex(), json.dumps.
EncodeUpload ==
  /\ path = "upload" /\ stage = "raw"
  /\ wire' = json_dumps([filename |-> "a.bin", content |-> Hex(raw)])
  /\ stage' = "hex"
  /\ UNCHANGED <<path, raw, back>>
  /\ UNCHANGED <<mainVars, mgrVars, wrkVars, nwVars>>

\* handle_upload_image / handle_upload_pdf: bytes.fromhex(payload['content']),
\* which raises on a string that is not an even number of hex digits.
DecodeUpload ==
  /\ path = "upload" /\ stage = "hex"
  /\ LET p == json_loads(wire)
     IN  IF ValidHex(p.content)
         THEN back' = FromHex(p.content) /\ stage' = "decoded"
         ELSE back' = back /\ stage' = "rejected"
  /\ UNCHANGED <<path, raw, wire>>
  /\ UNCHANGED <<mainVars, mgrVars, wrkVars, nwVars>>

\* handle_get_object: the reply with content.hex(), json.dumps.
EncodeFetch ==
  /\ path = "fetch" /\ stage = "raw"
  /\ wire' = json_dumps([tag |-> "image", data |-> Hex(raw),
                         mime_type |-> "image/png", filename |-> "a.png"])
  /\ stage' = "hex"
  /\ UNCHANGED <<path, raw, back>>
  /\ UNCHANGED <<mainVars, mgrVars, wrkVars, nwVars>>

\* get_object lines 307-317: bytes.fromhex(response['data']) is the body.
DecodeFetch ==
  /\ path = "fetch" /\ stage = "hex"
  /\ LET r == json_loads(wire)
     IN  IF ValidHex(r.data)
         THEN back' = Respond("get_object", r).body /\ stage' = "decoded"
         ELSE back' = back /\ stage' = "rejected"
  /\ UNCHANGED <<path, raw, wire>>
  /\ UNCHANGED <<mainVars, mgrVars, wrkVars, nwVars>>

NextCodec == EncodeUpload \/ DecodeUpload \/ EncodeFetch \/ DecodeFetch

SpecCodec == InitCodec /\ [][NextCodec]_vars

(***************************************************************************)
(* Claims about the request correlator.                                    *)
(***************************************************************************)

\* C1: on every exit path of a call-and-wait invocation - reply, timeout or
\* exception - the reply queue is gone (consumer cancelled, queue deleted)
\* when the invocation returns.  The original claim; the exception paths of
\* the handlers leave without the clean-up.
C1_ReplyQueueDeletedOnReturn ==
  \A c \in Calls : pc[c] = "done" => queue[c] = "absent"

\* C2: a call stores as its response only a message that carries its own
\* request id as correlation id, and it acknowledges only such messages:
\* every other message handed to its callback stays unacknowledged.
C2_OwnReplyOnly ==
  [][\A c \in Calls :
       /\ response'[c] # response[c] /\ response'[c] # None =>
            \E i \in 1..Len(replies[c]) :
               /\ replies[c][i].correlation_id = c
               /\ response'[c] = json_loads(replies[c][i].body)
       /\ queue[c] = "live" /\ queue'[c] = "live" /\ replies'[c] # replies[c]
          /\ replies'[c] = <<>> =>
            unacked'[c] = unacked[c] + Cardinality(
               {i \in 1..Len(replies[c]) : replies[c][i].correlation_id # c})
    ]_vars

\* C2 witness: both calls are in flight, call 2 holds its reply while the
\* request of call 1 is still queued, and a message with a foreign
\* correlation id has been handed to a callback and discarded.
C2_Witness ==
  /\ pc[1] = "wait" /\ pc[2] = "wait"
  /\ response[2] # None /\ response[1] = None
  /\ \E i \in 1..Len(readQ) : readQ[i].request_id = 1
  /\ unacked[1] + unacked[2] > 0

\* C3: without a bus fault, a call whose reply reached its reply queue
\* before the deadline returns before the deadline, and what it returns is
\* what the handler of its event type produced for its payload.
C3_FaultFreeRoundTrip ==
  \A c \in Calls :
     pc[c] = "done" /\ inTime[c] =>
        /\ outcome[c] = Respond(kind[c], GetterResult(kind[c], payload[c]))
        /\ outcome[c].kind # "timeout"
        /\ elapsed[c] < Timeout

\* C3 witness: a get_object call answered 200 with the decoded bytes of the
\* stored image, one clock tick after the wait began.
C3_Witness ==
  \E c \in Calls :
     /\ pc[c] = "done" /\ inTime[c] /\ elapsed[c] = TimeUnit
     /\ kind[c] = "get_object" /\ outcome[c].status = 200
     /\ outcome[c].body = <<137, 80>>

\* C4: a call that entered the wait and got no matching reply ends in the
\* timeout failure (HTTP 408), and not before the timeout has elapsed.  The
\* original claim; a connection lost during the wait ends the call at once
\* with the exception of process_data_events (HTTP 500).
C4_NoReplyEndsInTimeout ==
  \A c \in Calls :
     pc[c] = "done" /\ kind[c] # "none" /\ outcome[c].kind \notin {"success", "error"} =>
        outcome[c].status = 408 /\ elapsed[c] >= Timeout

\* C4, the part the code keeps under every fault: the timeout failure is
\* never returned before the timeout has elapsed, and a call in the wait
\* loop always leaves it (FairSpec).
C4_TimeoutAfterDeadline ==
  /\ [](\A c \in Calls : outcome[c].kind = "timeout" =>
           pc[c] = "done" /\ outcome[c].status = 408 /\ elapsed[c] >= Timeout)
  /\ \A c \in Calls : (pc[c] = "wait") ~> (pc[c] = "done")

\* C5: every invocation ends in a success payload, a structured error
\* payload or the timeout signal, never in a raw exception (HTTP 500 with
\* the exception text).  The original claim; a handler that finds the
\* connection absent, closed or dead answers 500.
C5_OnlyThreeOutcomes ==
  \A c \in Calls : pc[c] = "done" => outcome[c].kind \in {"success", "error", "timeout"}

(***************************************************************************)
(* Claims about the connection manager.                                    *)
(***************************************************************************)

\* C6: publish_message never hands a failure value to its caller: the only
\* value it returns is True, and it returns it in the step in which
\* basic_publish completed on the channel of the open connection and the
\* message was handed to the bus.
C6_PublishOnlyReturnsTrue ==
  /\ [](returned \in {"none", "True"})
  /\ [](ppc = "done" => returned = "True")
  /\ [][ppc' = "done" /\ ppc # "done" =>
          /\ ppc = "write" /\ returned' = "True"
          /\ connection = "open" /\ linkAlive /\ channel = "current"
          /\ sent' = sent + 1]_vars

\* C6 witness: a publish_message call that slept and retried has returned
\* True.
C6_Witness == ppc = "done" /\ returned = "True" /\ retried

\* C7: if the bus, from some point on, stays reachable, a publish_message
\* call that is under way returns, whatever transport errors it met.
C7_PublishEventuallyReturns ==
  <>[]busUp => ((ppc \in {"ensure", "sleepE", "write", "sleepP"}) ~> (ppc = "done"))

\* C7 witness: a publish_message call that met a bus fault and retried has
\* returned with the message handed to a live connection.
C7_Witness ==
  /\ ppc = "done" /\ retried /\ faults > 0
  /\ busUp /\ linkAlive /\ connection = "open" /\ sent > 0

\* C8: reconnect_delay is one of 1, 2, 4, 8, 16, 30, and the delays slept
\* since the last successful connect are 1, 2, 4, 8, 16, 30, 30, ... in
\* that order, the next one being the current reconnect_delay.
C8_BackoffSequence ==
  LET schedule(i) == IF i >= 6 THEN 30 ELSE 2 ^ (i - 1)
  IN  /\ reconnect_delay \in {1, 2, 4, 8, 16, 30}
      /\ \A i \in 1..Len(waits) : waits[i] = schedule(i)
      /\ Len(waits) < MaxWaits => reconnect_delay = schedule(Len(waits) + 1)

\* C8 witness: seven consecutive failures have waited 1, 2, 4, 8, 16, 30, 30.
C8_Witness ==
  /\ Len(waits) >= 7
  /\ SubSeq(waits, 1, 7) = <<1, 2, 4, 8, 16, 30, 30>>

\* C9: reconnect_delay never decreases except in a step that connects, a
\* step that connects sets it to 1, a publish_message that has returned on
\* an open connection leaves it at 1, and the first delay slept after a
\* successful connect is 1.
C9_DelayResetOnConnect ==
  /\ [][/\ reconnect_delay' < reconnect_delay =>
             connection # "open" /\ connection' = "open"
        /\ connection # "open" /\ connection' = "open" => reconnect_delay' = 1
       ]_vars
  /\ [](ppc = "done" /\ connection = "open" => reconnect_delay = 1)
  /\ [](waits # <<>> => waits[1] = 1)

\* C9 witness: the call has slept, so the delay had grown, and after the
\* connect that followed it the delay is 1 again.
C9_Witness ==
  /\ retried /\ ppc = "write" /\ connection = "open"
  /\ reconnect_delay = 1 /\ waits = <<>>

(***************************************************************************)
(* Claims about the workers.                                               *)
(***************************************************************************)

\* C10: a decoded request is never negatively acknowledged: whatever the
\* event type and the payload, a handler fault ends in basic_ack.  The
\* original claim; a request without a payload makes handle_list_objects,
\* handle_get_object and handle_create_object raise before their try.
C10_HandlerFaultAcked ==
  \A id \in Ids : nacks[id] > 0 => ~msg[id].decodable

\* C11: a message whose body cannot be decoded is negatively acknowledged
\* with requeue on every delivery: no handler is called for it, it is never
\* acknowledged, no reply is published for it, it is back at the head of
\* the queue after each basic_nack and so never leaves the worker's queue;
\* and while such a message exists the worker keeps reaching basic_nack.
C11_DecodeFaultRequeued ==
  /\ [](\A id \in Ids :
          msg[id] # None /\ ~msg[id].decodable =>
             /\ acks[id] = 0 /\ ~invoked[id]
             /\ \A k \in 1..Len(outbox) : outbox[k].correlation_id # id
             /\ \/ cur = id
                \/ \E k \in 1..Len(inbox) : inbox[k] = id
                \/ \E k \in 1..Len(held) : held[k] = id
             /\ cur = id => wpc \in {"handle", "nack"})
  /\ [][wpc = "nack" /\ wpc' # "nack" =>
          inbox' # <<>> /\ Head(inbox') = cur /\ Len(inbox') = Len(inbox) + 1]_vars
  /\ []((\E id \in Ids : msg[id] # None /\ ~msg[id].decodable) => <>(wpc = "nack"))

\* C11 witness: an undecodable message has been negatively acknowledged at
\* least twice and is in the queue again.
C11_Witness ==
  \E id \in Ids :
     /\ msg[id] # None /\ ~msg[id].decodable
     /\ nacks[id] >= 2 /\ wpc = "idle"
     /\ \E k \in 1..Len(inbox) : inbox[k] = id

\* C12: for a decoded request whose event type the worker has no handler
\* for, process_message sets the result {error: "Unknown event type"}
\* without calling a handler, never negatively acknowledges the message,
\* publishes that result, and nothing else, to the reply address exactly
\* when one was supplied, and acknowledges the message once.
C12_UnknownEventType ==
  LET unknown(id) == /\ msg[id] # None /\ msg[id].decodable
                     /\ msg[id].event_type \notin SupportedEvents(worker)
      expected == json_dumps([tag |-> "error", error |-> "Unknown event type"])
      repliesOf(id) == {k \in 1..Len(outbox) : outbox[k].correlation_id = id}
  IN  \A id \in Ids : unknown(id) =>
         /\ ~invoked[id] /\ nacks[id] = 0 /\ acks[id] <= 1
         /\ cur = id => wpc # "nack"
         /\ \A k \in repliesOf(id) :
               outbox[k].body = expected /\ outbox[k].to = msg[id].reply_to
         /\ msg[id].reply_to = 0 => repliesOf(id) = {}
         /\ cur = id /\ wpc \in {"reply", "ack"} =>
               wres = [tag |-> "error", error |-> "Unknown event type"]
         /\ acks[id] = 1 /\ msg[id].reply_to # 0 =>
               Cardinality(repliesOf(id)) = 1
         /\ (/\ cur # id
             /\ \A k \in 1..Len(inbox) : inbox[k] # id
             /\ \A k \in 1..Len(held) : held[k] # id) =>
               acks[id] = 1

\* C12 witness: a request with an unknown event type and a reply address
\* has been answered and acknowledged.
C12_Witness ==
  \E id \in Ids :
     /\ msg[id] # None /\ msg[id].decodable /\ msg[id].event_type = "bogus"
     /\ msg[id].reply_to # 0 /\ acks[id] = 1
     /\ \E k \in 1..Len(outbox) :
           /\ outbox[k].correlation_id = id
           /\ outbox[k].body = json_dumps([tag |-> "error", error |-> "Unknown event type"])

(***************************************************************************)
(* Claims about the fire-and-forget calls and the envelopes.               *)
(***************************************************************************)

\* C13: a fire-and-forget call that is accepted has put exactly one request
\* on the write queue, with no reply address, and answers with the request
\* id it generated; the step in which it returns is the step in which the
\* publish completed, and no step of the call changes a reply queue, the
\* messages on it, the read queue or another call.
C13_NoWaitFrame ==
  /\ [](\A n \in Writes :
          npc[n] = "done" /\ noutcome[n].status = 200 =>
             /\ noutcome[n].body = WriteRequestId(n)
             /\ Cardinality({k \in 1..Len(writeQ) :
                               writeQ[k].request_id = WriteRequestId(n)}) = 1
             /\ \A k \in 1..Len(writeQ) :
                   writeQ[k].request_id = WriteRequestId(n) =>
                      /\ writeQ[k].reply_to = None
                      /\ writeQ[k].event_type = nreq[n].op
                      /\ writeQ[k].payload = WritePayload(nreq[n].op, nreq[n].body))
  /\ [][\A n \in Writes :
          npc'[n] # npc[n] =>
             /\ UNCHANGED <<queue, replies, unacked, readQ, pc, response>>
             /\ Len(writeQ') <= Len(writeQ) + 1
             /\ npc'[n] = "done" /\ noutcome'[n].status = 200 =>
                   /\ Len(writeQ') = Len(writeQ) + 1
                   /\ writeQ'[Len(writeQ')].request_id = WriteRequestId(n)
             /\ npc'[n] = "publishing" => writeQ' = writeQ]_vars

\* C13 witness: an upload was accepted while a call-and-wait invocation
\* holds a live reply queue.
C13_Witness ==
  \E n \in Writes, c \in Calls :
     /\ npc[n] = "done" /\ noutcome[n].status = 200
     /\ nreq[n].op = "upload_image"
     /\ queue[c] = "live" /\ pc[c] = "wait"

\* C14: every request on a work queue carries a correlation id equal to
\* the request id of its body and delivery mode 2.  The original claim; the
\* fire-and-forget handlers pass no properties to publish_message, whose
\* default properties set delivery mode 2 and no correlation id.
C14_CorrelationIdOnEveryRequest ==
  /\ \A k \in 1..Len(readQ) :
        readQ[k].correlation_id = readQ[k].request_id /\ readQ[k].delivery_mode = 2
  /\ \A k \in 1..Len(writeQ) :
        writeQ[k].correlation_id = writeQ[k].request_id /\ writeQ[k].delivery_mode = 2

\* C15: for a delivery whose body was decoded, a reply is published if and
\* only if the delivery named a reply address: every reply goes to that
\* address with the delivery's correlation id, and once the delivery is
\* settled a reply address has had its reply.  The original claim; a
\* handler that raises (C10) ends the delivery in basic_nack with no reply.
C15_ReplyIffReplyTo ==
  \A id \in Ids :
     msg[id] # None /\ msg[id].decodable =>
        LET repliesOf == {k \in 1..Len(outbox) : outbox[k].correlation_id = msg[id].correlation_id}
        IN  /\ repliesOf # {} => msg[id].reply_to # 0
            /\ \A k \in repliesOf : outbox[k].to = msg[id].reply_to
            /\ acks[id] + nacks[id] > 0 /\ msg[id].reply_to # 0 => repliesOf # {}

\* C16: a call that ends without a reply answers 408, a success reply is
\* answered 200, and an {error: ...} reply is answered 404 or 500, never
\* 200.  The original claim; list_objects returns whatever reply it got,
\* an {error: ...} reply included, as the body of a 200.
C16_ErrorReplyNeverOk ==
  \A c \in Calls :
     pc[c] = "done" =>
        /\ outcome[c].kind = "timeout" => outcome[c].status = 408
        /\ outcome[c].kind = "success" => outcome[c].status = 200
        /\ outcome[c].kind = "error" => outcome[c].status \in {404, 500}

\* C17: a binary content comes back exactly: on the upload path and on the
\* fetch path the hex string is accepted by the decoder, and the bytes
\* decoded from it are the bytes that were encoded, the empty content
\* included.
C17_HexRoundTrip ==
  /\ stage # "rejected"
  /\ stage = "decoded" => back = raw

C17_Witness ==
  stage = "decoded" /\ path = "fetch" /\ Len(raw) = MaxLen /\ raw[1] = 255

\* C18: a timeout ends the call for the caller only.  The worker may take
\* the request after the caller was answered 408; the reply it publishes
\* then names a queue that was deleted, reaches no reply queue and no
\* call - the answer already given stays, no call's response is set - and
\* the request leaves READ_QUEUE acknowledged all the same.
C18_LateReplyDropped ==
  /\ [](\A c \in Calls : queue[c] = "absent" => replies[c] = <<>>)
  /\ [][\A c \in Calls :
          (/\ pc[c] = "done" /\ outcome[c].kind = "timeout"
           /\ queue[c] = "absent"
           /\ \E k \in 1..Len(readQ) : readQ[k].reply_to = c
           /\ ~\E k \in 1..Len(readQ') : readQ'[k].reply_to = c)
          => /\ replies' = replies
             /\ response' = response
             /\ outcome' = outcome /\ pc' = pc
             /\ Len(readQ') = Len(readQ) - 1]_vars

C18_Witness ==
  \E c \in Calls :
     /\ pc[c] = "done" /\ outcome[c].status = 408
     /\ dropped[c] = "done"
     /\ ~\E k \in 1..Len(readQ) : readQ[k].reply_to = c
     /\ \A d \in Calls : replies[d] = <<>> /\ response[d] = None

\* C19: publishers take the one connection in turn.  At most one caller
\* of publish_message is inside its connect-and-write sequence at a time,
\* and until that caller's write is done no other handler moves and no
\* other caller's message is written to a queue.
PublishingCallers ==
  {<<"call", c>> : c \in {d \in Calls : pc[d] = "publishing"}}
     \cup {<<"write", n>> : n \in {k \in Writes : npc[k] = "publishing"}}

C19_PublishersTakeTurns ==
  /\ [](Cardinality(PublishingCallers) <= 1)
  /\ [][\A c \in Calls :
          pc[c] = "publishing" =>
             /\ \A d \in Calls \ {c} : pc'[d] = pc[d]
             /\ npc' = npc /\ writeQ' = writeQ
             /\ readQ' \in {readQ, Append(readQ, Request(c, kind[c], payload[c]))}]_vars
  /\ [][\A n \in Writes :
          npc[n] = "publishing" =>
             /\ \A k \in Writes \ {n} : npc'[k] = npc[k]
             /\ pc' = pc /\ readQ' = readQ
             /\ writeQ' \in {writeQ, Append(writeQ,
                                  WriteRequest(n, nreq[n].op, nreq[n].body))}]_vars

C19_Witness ==
  /\ npc[1] = "publishing"
  /\ pc[1] = "consuming" /\ pc[2] = "consuming"
  /\ npc[2] = "idle"

\* C20: the consumer is registered before the request is published.  A
\* request naming the reply queue of a call enters READ_QUEUE only in a
\* step of a handler whose basic_consume has been called, and as long as
\* a call has no consumer on its reply queue READ_QUEUE holds no request
\* of the call and the reply queue holds no reply to it.
RequestsOf(q, c) == {k \in 1..Len(q) : q[k].reply_to = c}

C20_ConsumeBeforePublish ==
  /\ [](\A c \in Calls :
          pc[c] \in {"idle", "declared"} =>
             /\ RequestsOf(readQ, c) = {}
             /\ \A k \in 1..Len(replies[c]) : replies[c][k].correlation_id # c)
  /\ [][\A c \in Calls :
          Cardinality(RequestsOf(readQ', c)) > Cardinality(RequestsOf(readQ, c))
             => pc[c] \in {"consuming", "publishing"}]_vars

C20_Witness ==
  /\ pc[1] = "wait"
  /\ \E k \in 1..Len(replies[1]) : replies[1][k].correlation_id = 1
  /\ pc[2] = "declared" /\ queue[2] = "live" /\ replies[2] = <<>>

(***************************************************************************)
(* Claims about discarded replies, the manager's retry and the dispatch    *)
(* loop.                                                                   *)
(***************************************************************************)

\* C21: a message handed to a call's callback with another correlation id
\* is acknowledged and discarded: it does not fill the result slot, and no
\* delivery is left unacknowledged.  The original claim; the callback
\* calls basic_ack only inside `if props.correlation_id == request_id`, so
\* such a message stays unacknowledged on the channel.
C21_ForeignReplyAcked ==
  \A c \in Calls :
     /\ unacked[c] = 0
     /\ response[c] # None => response[c] # json_loads(StaleBody)

\* C22: a write that fails is a disconnect.  The step in which
\* basic_publish raises leaves the manager without a usable connection,
\* the channel it failed on is never written to again, and a write is
\* attempted only on the channel of a connection opened by connect().
C22_FailedWriteReconnects ==
  /\ [](ppc = "write" => connection = "open" /\ channel = "current")
  /\ [](ppc \in {"sleepP", "sleepE"} /\ channel = "stale" => NeedsConnect)
  /\ [][ppc = "write" /\ ppc' = "sleepP"
          => /\ connection' = "closed" /\ channel' = "stale"
             /\ sent' = sent]_vars
  /\ [][channel = "stale" /\ channel' = "current"
          => ppc = "ensure" /\ ConnectResult = "True"]_vars

C22_Witness ==
  /\ ppc = "sleepP" /\ sent = 1
  /\ connection = "closed" /\ channel = "stale"

\* C23: a delivery goes through process_message in order - handed over,
\* decoded and dispatched, handled, replied to, acknowledged.  basic_ack is
\* called for a message only at the end of its own process_message call:
\* its body was decoded, its handler (if its event type has one) has been
\* called and is back, and when it named a reply address the result has
\* been published there with its correlation id.
C23_AckAfterHandleAndReply ==
  /\ [][/\ wpc' = "handle" /\ wpc # "handle" => wpc = "idle" /\ cur = 0
        /\ wpc' = "reply" /\ wpc # "reply" => wpc = "handle"
        /\ wpc' = "ack" /\ wpc # "ack" => wpc = "reply"]_vars
  /\ [][\A id \in Ids :
          acks'[id] > acks[id] =>
             /\ cur = id /\ wpc = "ack"
             /\ msg[id].decodable
             /\ HandlerCalled(worker, msg[id]) => invoked[id] /\ runs[id] > 0
             /\ wres = Dispatch(worker, msg[id])
             /\ msg[id].reply_to # 0 =>
                  \E k \in 1..Len(outbox) :
                     /\ outbox[k].to = msg[id].reply_to
                     /\ outbox[k].correlation_id = msg[id].correlation_id
                     /\ outbox[k].body = json_dumps(wres)]_vars

C23_Witness ==
  \E id \in Ids :
     /\ acks[id] = 1 /\ invoked[id] /\ msg[id].reply_to # 0
     /\ msg[id].event_type = "get_object"
     /\ \E k \in 1..Len(outbox) : outbox[k].to = msg[id].reply_to

\* C24: the dispatch loop handles one message at a time.  process_message
\* is started for a delivery only when no call is in progress, and a call
\* in progress ends with its basic_ack or basic_nack (or with the service
\* being started again) before the next delivery is taken.
C24_OneMessageAtATime ==
  /\ [](wpc = "idle" <=> cur = 0)
  /\ [][cur' # cur /\ cur' # 0
          => cur = 0 /\ wpc = "idle" /\ wpc' = "handle" /\ cur' = Head(held)]_vars
  /\ [][cur # 0 /\ cur' # cur
          => cur' = 0 /\ (wpc \in {"ack", "nack"} \/ wlink = "down")]_vars

C24_Witness ==
  /\ cur = 1 /\ wpc = "reply"
  /\ held = <<2>>
  /\ acks[2] = 0 /\ runs[2] = 0

\* C25: the worker consumes with a prefetch of one: at most one delivery
\* of the work queue is unacknowledged at the worker at any time.  The
\* original claim; no basic_qos is called before basic_consume, so the
\* broker sends the consumer every message that is ready.
C25_PrefetchOfOne == Outstanding <= 1

\* C26: a transport error while the reply is published is taken care of by
\* reconnecting and retrying: a delivery whose handler has returned does
\* not end in the basic_nack of the except clause because of it.  The
\* original claim; the workers publish with ch.basic_publish inside the
\* try of process_message and have no connection manager.
C26_ReplyFaultRetried == [][wpc = "reply" => wpc' # "nack"]_vars

C29_OneReplyPerAddress ==
  \A id \in Ids :
     Cardinality({k \in 1..Len(outbox) : outbox[k].to = id}) <= 1

(***************************************************************************)
(* Claims about concurrent calls and rejected writes.                      *)
(***************************************************************************)

\* C28: a call in its wait loop does not hold up another call.  While call
\* a is waiting and no handler is inside publish_message, another call b
\* can start and go on, a reply that is in the reply queue of b can be
\* dispatched to b's callback, a call b that has its reply can return, and
\* the step in which b returns leaves a waiting as it was.
C28_WaitDoesNotBlock ==
  /\ [](\A a, b \in Calls :
          (/\ a # b
           /\ pc[a] = "wait" /\ response[a] = None /\ elapsed[a] < Timeout
           /\ \A c \in Calls : pc[c] # "publishing"
           /\ \A n \in Writes : npc[n] # "publishing")
          => /\ pc[b] = "idle" => ENABLED Begin(b, "get_object", [object_id |-> "o1"])
             /\ pc[b] = "declared" => ENABLED Consume(b)
             /\ pc[b] = "consuming" => ENABLED Publish(b)
             /\ pc[b] = "wait" /\ response[b] # None => ENABLED Finish(b)
             /\ pc[b] = "wait" /\ response[b] = None /\ Dispatchable(b)
                  => ENABLED PollDispatch(b))
  /\ [][\A a, b \in Calls :
          a # b /\ pc[a] = "wait" /\ pc[b] = "wait" /\ pc'[b] = "done"
             => pc'[a] = "wait" /\ response'[a] = response[a]
                /\ elapsed'[a] = elapsed[a]]_vars

C28_Witness ==
  /\ pc[1] = "wait" /\ response[1] = None /\ elapsed[1] < Timeout
  /\ \E k \in 1..Len(readQ) : readQ[k].reply_to = 1
  /\ pc[2] = "done" /\ outcome[2].kind = "success" /\ inTime[2]

\* C30: a write request that fails the orchestrator's validation is
\* answered 400 and nothing is published for it.  The original claim; the
\* HTTPException(400) is raised inside the handler's try, whose
\* `except Exception` answers 500.
C30_InvalidWriteAnswered400 ==
  \A n \in Writes :
     npc[n] = "done" /\ ~Valid(nreq[n].op, nreq[n].body) =>
        /\ noutcome[n].status = 400
        /\ \A k \in 1..Len(writeQ) : writeQ[k].request_id # WriteRequestId(n)

(***************************************************************************)
(* Claims about settling a delivery and about a reply at the deadline.     *)
(***************************************************************************)

\* C31: every call of process_message makes exactly one of basic_ack and
\* basic_nack for its delivery: when the call ends, one of the two has
\* been called, once, and not the other.  The original claim; basic_ack is
\* the last bus operation inside the try, so when it raises the except
\* clause calls basic_nack for the same delivery tag.
C31_SettledExactlyOnce ==
  [][(wpc = "ack" \/ wpc = "nack") /\ wpc' = "idle" /\ wlink' = wlink
       => Len(issued') = 1]_vars

\* C32: a reply that was received wins over the deadline.  A call ends in
\* the timeout answer only if its result slot is empty when the wait loop
\* has ended, and then the deadline has passed; a call whose callback has
\* stored (and acknowledged) the reply answers with that reply, also when
\* the reply was dispatched by a poll that ended after the deadline.
C32_ReplyWinsOverDeadline ==
  [][\A c \in Calls :
       pc[c] = "wait" /\ pc'[c] = "done" =>
          /\ outcome'[c].kind = "timeout" =>
                response[c] = None /\ elapsed[c] >= Timeout
          /\ response[c] # None =>
                /\ outcome'[c] = Respond(kind[c], response[c])
                /\ outcome'[c].status # 408]_vars

C32_Witness ==
  \E c \in Calls :
     /\ pc[c] = "done" /\ outcome[c].kind = "success"
     /\ elapsed[c] = Timeout /\ ~inTime[c]

====
